---- MODULE Spec2Model ----
(***************************************************************************)
(* A model of climdir's Cmip5File (src/climdir/__init__.py): the metadata  *)
(* record, its validated mutation, the temporal views over                 *)
(* temporal_subset, and the three string generators.                       *)
(*                                                                         *)
(* A Python str is a sequence of one-character strings, so that split,     *)
(* join and os.path.join are computed character by character.  A field     *)
(* name is an atom (a TLA+ string).  The instance __dict__ is a function   *)
(* from the set of stored names to their values.                           *)
(***************************************************************************)
EXTENDS Naturals, Sequences, FiniteSets

VARIABLES
    d,      \* the record's __dict__ : stored name -> value
    pre,    \* __dict__ as it was when the last operation was called
    last,   \* the last operation: its name, arguments, exception and return value
    src,    \* the path argument the record was constructed from: its keyword and string
    n       \* number of operations called on the record so far

vars == <<d, pre, last, src, n>>

----------------------------------------------------------------------------
(* Bounds *)

\* operations called on one record
MaxOps == 2
\* length of a value written to a temporal field
MaxValLen == 2
\* length of the temporal_subset a record of the temporal scenario starts with
MaxTsLen == 3

----------------------------------------------------------------------------
(* The constant tables, lines 8-54 *)

ATTR_KEYS ==
    << "activity", "product", "institute", "model", "experiment", "frequency",
       "modeling_realm", "mip_table", "ensemble_member", "version_number",
       "variable_name", "temporal_subset", "geographical_info",
       "t_start", "t_end", "temporal_suffix" >>

CMOR_FNAME_REQUIRED_ATTS_swapped ==
    << "variable_name", "model", "mip_table", "experiment", "ensemble_member" >>

CMOR_FNAME_REQUIRED_ATTS ==
    << "variable_name", "mip_table", "model", "experiment", "ensemble_member" >>

CMOR_FNAME_OPTIONAL_ATTS_swapped == << "geographical_info", "temporal_subset" >>

CMOR_FNAME_OPTIONAL_ATTS == << "temporal_subset", "geographical_info" >>

CMOR_FP_ATTS ==
    << "activity", "product", "institute", "model", "experiment", "frequency",
       "modeling_realm", "variable_name", "ensemble_member" >>

DATANODE_FP_ATTS_swapped ==
    << "activity", "product", "institute", "model", "experiment", "frequency",
       "modeling_realm", "mip_table", "ensemble_member", "variable_name",
       "version_number" >>

DATANODE_FP_ATTS ==
    << "activity", "product", "institute", "model", "experiment", "frequency",
       "modeling_realm", "mip_table", "ensemble_member", "version_number",
       "variable_name" >>

\* The names the class defines as properties (lines 145-179): data descriptors,
\* so getattr/setattr/delattr on them never touch __dict__.
PropertyNames == {"t_start", "t_end", "temporal_suffix"}

Range(s) == {s[i] : i \in DOMAIN s}

----------------------------------------------------------------------------
(* Python primitives the class is written with *)

\* bool(v) of a str: the empty string is falsy (False is modelled by it too:
\* line 113 reads nothing of a falsy value but its truth).
Truthy(v) == Len(v) > 0

PyFalse == << >>

\* an exception, or a normal return carrying the new __dict__ and a value
NoneV == [none |-> TRUE, v |-> << >>]
Some(x) == [none |-> FALSE, v |-> x]
Ok(dd, r) == [exc |-> "none", key |-> "", d |-> dd, ret |-> r]
Raise(dd, e, k) == [exc |-> e, key |-> k, d |-> dd, ret |-> NoneV]

\* index (1-based) of the first occurrence of character c in s, 0 if none
RECURSIVE Find(_, _, _)
Find(s, c, i) ==
    IF i > Len(s) THEN 0
    ELSE IF s[i] = c THEN i
    ELSE Find(s, c, i + 1)

\* str.split(c): always at least one segment; "".split('-') is ['']
RECURSIVE Split(_, _)
Split(s, c) ==
    LET i == Find(s, c, 1)
    IN  IF i = 0 THEN << s >>
        ELSE << SubSeq(s, 1, i - 1) >> \o Split(SubSeq(s, i + 1, Len(s)), c)

\* c.join(l)
RECURSIVE Join(_, _)
Join(l, c) ==
    IF Len(l) = 0 THEN << >>
    ELSE IF Len(l) = 1 THEN l[1]
    ELSE l[1] \o << c >> \o Join(Tail(l), c)

\* posixpath.join(*parts), as called on line 196: a component that starts with
\* the separator restarts the path; the separator is inserted only after a
\* non-empty path that does not already end with it.
RECURSIVE os_path_join_from(_, _)
os_path_join_from(path, parts) ==
    IF Len(parts) = 0 THEN path
    ELSE LET b == Head(parts)
         IN  IF Len(b) > 0 /\ b[1] = "/"
                THEN os_path_join_from(b, Tail(parts))
             ELSE IF Len(path) = 0 \/ path[Len(path)] = "/"
                THEN os_path_join_from(path \o b, Tail(parts))
             ELSE os_path_join_from(path \o << "/" >> \o b, Tail(parts))

os_path_join(parts) == os_path_join_from(Head(parts), Tail(parts))

\* __dict__ with name k bound to v / with name k removed
Store(dd, k, v) == [x \in DOMAIN dd \cup {k} |-> IF x = k THEN v ELSE dd[x]]
Remove(dd, k) == [x \in DOMAIN dd \ {k} |-> dd[x]]

----------------------------------------------------------------------------
(* Temporal subset elements, lines 139-179 *)

set_timeval_next_index(dd, index, value) ==
    IF "temporal_subset" \notin DOMAIN dd
        THEN Raise(dd, "AttributeError", "temporal_subset")
    ELSE IF Truthy(dd["temporal_subset"])
        THEN LET l == Split(dd["temporal_subset"], "-")
             IN  IF index + 2 > Len(l)
                    THEN Raise(dd, "IndexError", "temporal_subset")
                    ELSE Ok(Store(dd, "temporal_subset",
                                  Join([l EXCEPT ![index + 2] = value], "-")), NoneV)
    ELSE Ok(dd, NoneV)

\* set_timeval, lines 139-143
set_timeval(dd, index, value) ==
    IF "temporal_subset" \notin DOMAIN dd
        THEN Raise(dd, "AttributeError", "temporal_subset")
    ELSE IF Truthy(dd["temporal_subset"])
        THEN LET l == Split(dd["temporal_subset"], "-")
             IN  IF index + 1 > Len(l)
                    THEN Raise(dd, "IndexError", "temporal_subset")
                    ELSE Ok(Store(dd, "temporal_subset",
                                  Join([l EXCEPT ![index + 1] = value], "-")), NoneV)
    ELSE Ok(dd, NoneV)

\* t_start getter, lines 145-148
t_start_get(dd) ==
    IF "temporal_subset" \notin DOMAIN dd
        THEN Raise(dd, "AttributeError", "temporal_subset")
    ELSE IF Truthy(dd["temporal_subset"])
        THEN Ok(dd, Some(Split(dd["temporal_subset"], "-")[1]))
    ELSE Ok(dd, NoneV)

\* t_start setter, lines 150-152
t_start_set(dd, value) == set_timeval(dd, 0, value)

\* t_end getter, lines 154-157
t_end_get(dd) ==
    IF "temporal_subset" \notin DOMAIN dd
        THEN Raise(dd, "AttributeError", "temporal_subset")
    ELSE IF Truthy(dd["temporal_subset"])
        THEN LET l == Split(dd["temporal_subset"], "-")
             IN  IF Len(l) < 2
                    THEN Raise(dd, "IndexError", "temporal_subset")
                    ELSE Ok(dd, Some(l[2]))
    ELSE Ok(dd, NoneV)

\* t_end setter, lines 159-161
t_end_set(dd, value) == set_timeval(dd, 1, value)

\* temporal_suffix getter, lines 163-168
temporal_suffix_get(dd) ==
    IF "temporal_subset" \notin DOMAIN dd
        THEN Raise(dd, "AttributeError", "temporal_subset")
    ELSE IF Truthy(dd["temporal_subset"])
            /\ Len(Split(dd["temporal_subset"], "-")) > 2
        THEN Ok(dd, Some(Split(dd["temporal_subset"], "-")[3]))
    ELSE Ok(dd, NoneV)

\* temporal_suffix setter, lines 170-179
temporal_suffix_set(dd, value) ==
    IF "temporal_subset" \notin DOMAIN dd
        THEN Raise(dd, "AttributeError", "temporal_subset")
    ELSE IF Truthy(dd["temporal_subset"])
        THEN LET l == Split(dd["temporal_subset"], "-")
                 cur == temporal_suffix_get(dd).ret
                 l2 == IF ~cur.none /\ Truthy(cur.v)
                          THEN [l EXCEPT ![3] = value]
                          ELSE Append(l, value)
             IN  Ok(Store(dd, "temporal_subset", Join(l2, "-")), NoneV)
    ELSE Ok(dd, NoneV)

----------------------------------------------------------------------------
(* Attribute access on the instance *)

\* setattr(self, k, v), line 116: a property's setter runs for its name, any
\* other name is bound in __dict__.
PySetattr(dd, k, v) ==
    IF k = "t_start" THEN t_start_set(dd, v)
    ELSE IF k = "t_end" THEN t_end_set(dd, v)
    ELSE IF k = "temporal_suffix" THEN temporal_suffix_set(dd, v)
    ELSE Ok(Store(dd, k, v), NoneV)

\* delattr(self, k), line 114: the properties define no deleter, and a name
\* that is not bound raises.
PyDelattr(dd, k) ==
    IF k \in PropertyNames THEN Raise(dd, "AttributeError", k)
    ELSE IF k \in DOMAIN dd THEN Ok(Remove(dd, k), NoneV)
    ELSE Raise(dd, "AttributeError", k)

\* getattr(self, k) of a name that is no property, lines 188 and 196
PyGetattr(dd, k) ==
    IF k \in DOMAIN dd THEN Ok(dd, Some(dd[k]))
    ELSE Raise(dd, "AttributeError", k)

----------------------------------------------------------------------------
(* Field mutation, lines 106-136 *)

\* k not in ATTR_KEYS, line 110
Known_any(k) == TRUE

Known(k) == k \in Range(ATTR_KEYS)

\* _update_known_atts, lines 106-116; kw is the keyword mapping in the order
\* the loop meets it, a sequence of <<name, value>>.
RECURSIVE update_known_atts(_, _)
update_known_atts(dd, kw) ==
    IF Len(kw) = 0 THEN Ok(dd, NoneV)
    ELSE LET k == Head(kw)[1]
             v == Head(kw)[2]
         IN  IF ~Known(k) THEN Raise(dd, "SyntaxWarning", k)
             ELSE LET r == IF ~Truthy(v) THEN PyDelattr(dd, k)
                                         ELSE PySetattr(dd, k, v)
                  IN  IF r.exc # "none" THEN r
                      ELSE update_known_atts(r.d, Tail(kw))

\* update, lines 118-130
update(dd, kw) == update_known_atts(dd, kw)

\* delete, lines 132-136
delete(dd, args) ==
    update_known_atts(dd, [i \in DOMAIN args |-> << args[i], PyFalse >>])

----------------------------------------------------------------------------
(* Path generators, lines 181-210 *)

\* the first name of list atts that is not bound, "" if all are
RECURSIVE FirstMissing(_, _)
FirstMissing(dd, atts) ==
    IF Len(atts) = 0 THEN ""
    ELSE IF Head(atts) \notin DOMAIN dd THEN Head(atts)
    ELSE FirstMissing(dd, Tail(atts))

\* [x for x in atts if x in self.__dict__]
RECURSIVE Present(_, _)
Present(dd, atts) ==
    IF Len(atts) = 0 THEN << >>
    ELSE (IF Head(atts) \in DOMAIN dd THEN << Head(atts) >> ELSE << >>)
         \o Present(dd, Tail(atts))

ValuesOf(dd, atts) == [i \in DOMAIN atts |-> dd[atts[i]]]

\* cmor_fname, lines 182-190
cmor_fname(dd) ==
    LET m == FirstMissing(dd, CMOR_FNAME_REQUIRED_ATTS)
    IN  IF m # "" THEN Raise(dd, "AttributeError", m)
        ELSE Ok(dd, Some(
                Join(ValuesOf(dd, CMOR_FNAME_REQUIRED_ATTS)
                     \o ValuesOf(dd, Present(dd, CMOR_FNAME_OPTIONAL_ATTS)), "_")
                \o << ".", "n", "c" >>))

\* get_joined_file_path, lines 192-196
get_joined_file_path(dd, atts) ==
    LET m == FirstMissing(dd, atts)
    IN  IF m # "" THEN Raise(dd, "AttributeError", m)
        ELSE LET f == cmor_fname(dd)
             IN  IF f.exc # "none" THEN f
                 ELSE Ok(dd, Some(os_path_join(ValuesOf(dd, atts) \o << f.ret.v >>)))

\* cmor_fp, lines 198-203
cmor_fp(dd) == get_joined_file_path(dd, CMOR_FP_ATTS)

\* datanode_fp, lines 205-210
datanode_fp(dd) == get_joined_file_path(dd, DATANODE_FP_ATTS)

----------------------------------------------------------------------------
(* Construction, lines 74-91 *)

EmptyDict == [x \in {} |-> << >>]

StoredNames == Range(ATTR_KEYS) \ PropertyNames

\* Cmip5File(**kwargs): no path argument, so only line 91 runs
Construct(kw) == update_known_atts(EmptyDict, kw)

\* no cmor_fp, datanode_fp or cmor_fname argument was given
NoSource == [arg |-> "", s |-> << >>]

InitLast(kw) == [op |-> "init", kw |-> kw, exc |-> "none", key |-> "", ret |-> NoneV]

----------------------------------------------------------------------------
(* Inputs of the record scenario: every name of the vocabulary and two names
   outside it; one value per stored field (distinct per field, so that an
   order of fields shows in a generated string), a value of model that starts
   with the path separator, and the empty value. *)

Canon ==
    [ activity |-> << "c" >>, product |-> << "o" >>, institute |-> << "i" >>,
      model |-> << "m" >>, experiment |-> << "x" >>, frequency |-> << "f" >>,
      modeling_realm |-> << "r" >>, mip_table |-> << "t" >>,
      ensemble_member |-> << "e" >>, version_number |-> << "v" >>,
      variable_name |-> << "n" >>, temporal_subset |-> << "a", "-", "a" >>,
      geographical_info |-> << "g" >> ]

UnknownNames == {"bogus", "junk"}

Names == Range(ATTR_KEYS) \cup UnknownNames

InputVals(k) ==
    IF k \in StoredNames
        THEN {<< >>, Canon[k]} \cup (IF k = "model" THEN {<< "/", "m" >>} ELSE {})
        ELSE {<< >>, << "b" >>}

\* names that also occur in two-name mappings
PairNames == {"model", "t_start", "bogus", "junk"}

KwSingles == UNION {{ << <<k, v>> >> : v \in InputVals(k)} : k \in Names}

KwPairs ==
    UNION {{ << <<k1, v1>>, <<k2, v2>> >> : v1 \in InputVals(k1), v2 \in InputVals(k2)}
           : <<k1, k2>> \in {p \in PairNames \X PairNames : p[1] # p[2]}}

KwArgs == KwSingles \cup KwPairs

DelArgs ==
    {<< k >> : k \in Names}
    \cup {<< p[1], p[2] >> : p \in {q \in PairNames \X PairNames : q[1] # q[2]}}

\* keyword data a record of the record scenario is constructed from: none,
\* every stored field, or the eleven fields that are not filename-optional
KwOf(names) == [i \in DOMAIN names |-> << names[i], Canon[names[i]] >>]

InitKwargs == {<< >>, KwOf(SubSeq(ATTR_KEYS, 1, 13)), KwOf(SubSeq(ATTR_KEYS, 1, 11))}

Init ==
    \E kw \in InitKwargs :
        /\ Construct(kw).exc = "none"
        /\ d = Construct(kw).d
        /\ pre = EmptyDict
        /\ last = InitLast(kw)
        /\ src = NoSource
        /\ n = 0

----------------------------------------------------------------------------
(* Operations *)

\* one call on the record: r is what the called code returns or raises
Call(op, kw, r) ==
    /\ d' = r.d
    /\ pre' = d
    /\ last' = [op |-> op, kw |-> kw, exc |-> r.exc, key |-> r.key, ret |-> r.ret]
    /\ n' = n + 1
    /\ UNCHANGED src

Update ==
    /\ n < MaxOps
    /\ \E kw \in KwArgs : Call("update", kw, update(d, kw))

Delete ==
    /\ n < MaxOps
    /\ \E args \in DelArgs :
          Call("delete", [i \in DOMAIN args |-> << args[i], PyFalse >>], delete(d, args))

CmorFname ==
    /\ n < MaxOps
    /\ Call("cmor_fname", << >>, cmor_fname(d))

CmorFp ==
    /\ n < MaxOps
    /\ Call("cmor_fp", << >>, cmor_fp(d))

DatanodeFp ==
    /\ n < MaxOps
    /\ Call("datanode_fp", << >>, datanode_fp(d))

Next == Update \/ Delete \/ CmorFname \/ CmorFp \/ DatanodeFp

Spec == Init /\ [][Next]_vars

----------------------------------------------------------------------------
(* Properties of the record scenario (Spec) *)

Vocabulary ==
    {"activity", "product", "institute", "model", "experiment", "frequency",
     "modeling_realm", "mip_table", "ensemble_member", "version_number",
     "variable_name", "temporal_subset", "geographical_info",
     "t_start", "t_end", "temporal_suffix"}

FnameRequired == {"variable_name", "mip_table", "model", "experiment", "ensemble_member"}

KwNames(kw) == {kw[i][1] : i \in DOMAIN kw}

\* dd and ee bind the same values outside the names in ks
SameExcept(dd, ee, ks) ==
    /\ DOMAIN dd \ ks = DOMAIN ee \ ks
    /\ \A x \in DOMAIN dd \ ks : dd[x] = ee[x]

\* the first name of mapping kw that is outside the vocabulary ("" if none)
RECURSIVE FirstUnknown(_)
FirstUnknown(kw) ==
    IF Len(kw) = 0 THEN ""
    ELSE IF Head(kw)[1] \notin Vocabulary THEN Head(kw)[1]
    ELSE FirstUnknown(Tail(kw))

\* the file name the convention prescribes for a record that binds the five
\* required fields
FnameOf(dd) ==
    dd["variable_name"] \o << "_" >> \o dd["mip_table"] \o << "_" >> \o dd["model"]
    \o << "_" >> \o dd["experiment"] \o << "_" >> \o dd["ensemble_member"]
    \o (IF "temporal_subset" \in DOMAIN dd
           THEN << "_" >> \o dd["temporal_subset"] ELSE << >>)
    \o (IF "geographical_info" \in DOMAIN dd
           THEN << "_" >> \o dd["geographical_info"] ELSE << >>)
    \o << ".", "n", "c" >>

\* the fields of list atts, in order, then the file name, as path components
RECURSIVE PathOf(_, _)
PathOf(dd, atts) ==
    IF Len(atts) = 0 THEN FnameOf(dd)
    ELSE dd[Head(atts)] \o << "/" >> \o PathOf(dd, Tail(atts))

NoSeparator(dd) == \A x \in DOMAIN dd : "/" \notin Range(dd[x])

\* what a path generator called as op, over the segment names atts, did on
\* its last call: the segments and the file name joined with the separator
\* (required only of records without a separator in a value, if restricted),
\* or AttributeError for an unbound name; the record as it was
PathAsClaimed(op, atts, restricted) ==
    last.op = op
        => /\ d = pre
           /\ IF (Range(atts) \cup FnameRequired) \subseteq DOMAIN pre
                 THEN (restricted => NoSeparator(pre))
                         => (/\ last.exc = "none"
                             /\ ~last.ret.none
                             /\ last.ret.v = PathOf(pre, atts))
                 ELSE /\ last.exc = "AttributeError"
                      /\ last.key \in (Range(atts) \cup FnameRequired) \ DOMAIN pre
                      /\ last.ret.none

StandardSegments ==
    << "activity", "product", "institute", "model", "experiment", "frequency",
       "modeling_realm", "variable_name", "ensemble_member" >>

ExtendedSegments ==
    << "activity", "product", "institute", "model", "experiment", "frequency",
       "modeling_realm", "mip_table", "ensemble_member", "version_number",
       "variable_name" >>

\* C1: an update whose mapping holds a name outside the vocabulary fails (with
\* UnknownField; here: with whatever exception) and leaves the stored mapping
\* as it was before the call, whatever else the mapping holds and in whatever
\* order.
C1_UpdateAtomic ==
    (last.op = "update" /\ KwNames(last.kw) \ Vocabulary # {})
        => (last.exc # "none" /\ d = pre)

\* C4: update(name = falsy) and delete(name), for any name of the vocabulary,
\* set or not, complete without error, leave the name absent and every other
\* field as it was; the filename generator then fails for a required name.
C4_DeleteOnFalsy ==
    (/\ last.op \in {"update", "delete"}
     /\ Len(last.kw) = 1
     /\ last.kw[1][1] \in Vocabulary
     /\ ~Truthy(last.kw[1][2]))
        => (/\ last.exc = "none"
            /\ last.kw[1][1] \notin DOMAIN d
            /\ SameExcept(d, pre, {last.kw[1][1]})
            /\ last.kw[1][1] \in FnameRequired
                  => (cmor_fname(d).exc = "AttributeError"
                      /\ cmor_fname(d).key = last.kw[1][1]))

\* C5: update called with a name outside the vocabulary, whatever the value,
\* fails with UnknownField (SyntaxWarning) naming that key and changes nothing;
\* an update whose mapping holds such a name among others always fails, names
\* the first such key when it fails with UnknownField, and never binds or
\* unbinds a name outside the vocabulary.
C5_UnknownRejected ==
    /\ (last.op = "update" /\ Len(last.kw) = 1 /\ last.kw[1][1] \notin Vocabulary)
          => (/\ last.exc = "SyntaxWarning"
              /\ last.key = last.kw[1][1]
              /\ d = pre)
    /\ (last.op = "update" /\ KwNames(last.kw) \ Vocabulary # {})
          => (/\ last.exc # "none"
              /\ last.exc = "SyntaxWarning" => last.key = FirstUnknown(last.kw)
              /\ DOMAIN d \ Vocabulary = DOMAIN pre \ Vocabulary)
    /\ DOMAIN d \subseteq Vocabulary

C5_Witness ==
    /\ last.op = "update"
    /\ Len(last.kw) = 1
    /\ last.kw[1][1] = "bogus"
    /\ Truthy(last.kw[1][2])
    /\ last.exc = "SyntaxWarning"
    /\ DOMAIN pre # {}

\* C6: with the five required fields bound, the file name is their values in
\* the fixed order joined by "_", then "_" and temporal_subset if bound, then
\* "_" and geographical_info if bound, then ".nc"; with one of the five
\* unbound the call fails with MissingField (AttributeError) for an unbound
\* required name and returns nothing.
C6_Filename ==
    last.op = "cmor_fname"
        => IF FnameRequired \subseteq DOMAIN pre
              THEN last.exc = "none" /\ ~last.ret.none /\ last.ret.v = FnameOf(pre)
              ELSE /\ last.exc = "AttributeError"
                   /\ last.key \in FnameRequired \ DOMAIN pre
                   /\ last.ret.none

C6_Witness ==
    /\ last.op = "cmor_fname"
    /\ last.exc = "none"
    /\ "geographical_info" \in DOMAIN pre
    /\ "temporal_subset" \notin DOMAIN pre

\* C7 as claimed: each path generator returns its segment fields in order and
\* then the file name as successive path components, and fails with
\* MissingField, returning nothing and changing nothing, when a segment field
\* or a required filename field is unbound.
C7_PathsAsClaimed ==
    /\ PathAsClaimed("cmor_fp", StandardSegments, FALSE)
    /\ PathAsClaimed("datanode_fp", ExtendedSegments, FALSE)

\* C7 amended: the same, for records none of whose values holds the path
\* separator.
C7_Paths ==
    /\ PathAsClaimed("cmor_fp", StandardSegments, TRUE)
    /\ PathAsClaimed("datanode_fp", ExtendedSegments, TRUE)

C7_Witness ==
    /\ last.op = "datanode_fp"
    /\ last.exc = "none"
    /\ NoSeparator(pre)
    /\ "temporal_subset" \in DOMAIN pre

----------------------------------------------------------------------------
(* The temporal scenario (SpecT): records that bind model and, or not, a
   temporal_subset; updates, deletions, property writes and reads of the
   temporal names.  Initial values are written over {a, -}, written values
   over {b, -}, so a written character is told from one that was there. *)

Strs(A, k) == UNION {[1..i -> A] : i \in 0..k}

WVals == Strs({"b", "-"}, MaxValLen)

\* values passed to update in this scenario: falsy, one segment, two segments
UVals == {<< >>, << "b" >>, << "b", "-", "b" >>}

TNames == {"temporal_subset", "t_start", "t_end", "temporal_suffix", "bogus"}

InitKwargsT ==
    {<< <<"model", Canon["model"]>> >>}
    \cup {<< <<"model", Canon["model"]>>, <<"temporal_subset", ts>> >>
          : ts \in Strs({"a", "-"}, MaxTsLen) \ {<< >>}}

InitT ==
    \E kw \in InitKwargsT :
        /\ Construct(kw).exc = "none"
        /\ d = Construct(kw).d
        /\ pre = EmptyDict
        /\ last = InitLast(kw)
        /\ src = NoSource
        /\ n = 0

UpdateTemporal ==
    /\ n < MaxOps
    /\ \E k \in TNames, v \in UVals :
          Call("update", << <<k, v>> >>, update(d, << <<k, v>> >>))

DeleteTemporal ==
    /\ n < MaxOps
    /\ \E k \in TNames :
          Call("delete", << <<k, PyFalse>> >>, delete(d, << k >>))

\* self.t_start = v
SetTStart ==
    /\ n < MaxOps
    /\ \E v \in WVals : Call("set t_start", << <<"t_start", v>> >>, t_start_set(d, v))

\* self.t_end = v
SetTEnd ==
    /\ n < MaxOps
    /\ \E v \in WVals : Call("set t_end", << <<"t_end", v>> >>, t_end_set(d, v))

\* self.temporal_suffix = v
SetTemporalSuffix ==
    /\ n < MaxOps
    /\ \E v \in WVals :
          Call("set temporal_suffix", << <<"temporal_suffix", v>> >>,
               temporal_suffix_set(d, v))

GetTStart ==
    /\ n < MaxOps
    /\ Call("t_start", << >>, t_start_get(d))

GetTEnd ==
    /\ n < MaxOps
    /\ Call("t_end", << >>, t_end_get(d))

GetTemporalSuffix ==
    /\ n < MaxOps
    /\ Call("temporal_suffix", << >>, temporal_suffix_get(d))

GetTemporalSubset ==
    /\ n < MaxOps
    /\ Call("temporal_subset", << >>, PyGetattr(d, "temporal_subset"))

NextT ==
    \/ UpdateTemporal \/ DeleteTemporal
    \/ SetTStart \/ SetTEnd \/ SetTemporalSuffix
    \/ GetTStart \/ GetTEnd \/ GetTemporalSuffix \/ GetTemporalSubset

SpecT == InitT /\ [][NextT]_vars

----------------------------------------------------------------------------
(* Properties of the temporal scenario (SpecT) *)

Bound(dd) == "temporal_subset" \in DOMAIN dd

Segs(dd) == Split(dd["temporal_subset"], "-")

HyphenFree(v) == "-" \notin Range(v)

WrittenValue == last.kw[1][2]

\* temporal_subset as the data model describes it: start-end or
\* start-end-suffix, start and end not empty
TwoOrThree(dd) ==
    /\ Bound(dd)
    /\ Len(Segs(dd)) \in {2, 3}
    /\ Truthy(Segs(dd)[1])
    /\ Truthy(Segs(dd)[2])

\* C3: whenever temporal_subset is bound, t_start reads as its segment 0,
\* t_end as its segment 1 and, when there is a third segment, temporal_suffix
\* as its segment 2 (the segments that exist), and none of the three derived
\* names is ever a key of the stored mapping.
C3_DerivedViews ==
    /\ DOMAIN d \cap PropertyNames = {}
    /\ Bound(d)
          => /\ t_start_get(d).exc = "none"
             /\ t_start_get(d).ret = Some(Segs(d)[1])
             /\ Len(Segs(d)) >= 2
                   => (t_end_get(d).exc = "none" /\ t_end_get(d).ret = Some(Segs(d)[2]))
             /\ Len(Segs(d)) >= 3
                   => (/\ temporal_suffix_get(d).exc = "none"
                       /\ temporal_suffix_get(d).ret = Some(Segs(d)[3]))

\* C8: writing temporal_suffix = v on a record whose temporal_subset is bound
\* (here only: has two or three segments, v without "-") replaces the third
\* segment if there is one and appends v otherwise; temporal_subset then has
\* exactly three segments, the first two as before, and temporal_suffix reads v.
C8_SuffixSetter ==
    (last.op = "set temporal_suffix" /\ TwoOrThree(pre) /\ HyphenFree(WrittenValue))
        => /\ last.exc = "none"
           /\ Bound(d)
           /\ Len(Segs(d)) = 3
           /\ Segs(d)[1] = Segs(pre)[1]
           /\ Segs(d)[2] = Segs(pre)[2]
           /\ Segs(d)[3] = WrittenValue
           /\ temporal_suffix_get(d).ret = Some(WrittenValue)

\* C9: temporal_suffix reads as segment 2 when temporal_subset has exactly
\* three segments and as None (never an exception) otherwise; reading an
\* unbound field yields None alike for temporal_suffix, t_start, t_end and
\* temporal_subset.
C9_SuffixGetter ==
    /\ last.op = "temporal_suffix"
          => /\ last.exc = "none"
             /\ last.ret = IF Bound(pre) /\ Len(Segs(pre)) = 3
                              THEN Some(Segs(pre)[3]) ELSE NoneV
    /\ (last.op \in {"t_start", "t_end", "temporal_subset"} /\ ~Bound(pre))
          => (/\ last.exc = temporal_suffix_get(pre).exc
              /\ last.ret = temporal_suffix_get(pre).ret)

\* the effect C10 describes of writing value v to segment i (1 or 2)
WriteReadOf(i, get) ==
    /\ last.exc = "none"
    /\ Bound(d)
    /\ get.exc = "none"
    /\ get.ret = Some(WrittenValue)
    /\ Len(Segs(d)) = Len(Segs(pre))
    /\ \A j \in DOMAIN Segs(pre) : j # i => Segs(d)[j] = Segs(pre)[j]
    /\ SameExcept(d, pre, {"temporal_subset"})

\* C10 as claimed: after writing a non-empty v to t_start (t_end) on a record
\* whose temporal_subset is bound (here only: has two or three segments),
\* t_start (t_end) reads v, the number of segments and the other segments are
\* as before and no other field has changed - v may contain "-".
C10_WriteReadAsClaimed ==
    /\ (last.op = "set t_start" /\ TwoOrThree(pre) /\ Truthy(WrittenValue))
          => WriteReadOf(1, t_start_get(d))
    /\ (last.op = "set t_end" /\ TwoOrThree(pre) /\ Truthy(WrittenValue))
          => WriteReadOf(2, t_end_get(d))

\* C10 amended: the same for a non-empty v without "-", on a record whose
\* temporal_subset is bound to a non-empty string (for t_end: one of at least
\* two segments).
C10_WriteRead ==
    /\ (/\ last.op = "set t_start"
        /\ Bound(pre) /\ Truthy(pre["temporal_subset"])
        /\ Truthy(WrittenValue) /\ HyphenFree(WrittenValue))
          => WriteReadOf(1, t_start_get(d))
    /\ (/\ last.op = "set t_end"
        /\ Bound(pre) /\ Truthy(pre["temporal_subset"]) /\ Len(Segs(pre)) >= 2
        /\ Truthy(WrittenValue) /\ HyphenFree(WrittenValue))
          => WriteReadOf(2, t_end_get(d))

C10_Witness ==
    /\ last.op = "set t_end"
    /\ Bound(pre)
    /\ Len(Segs(pre)) = 3
    /\ Truthy(WrittenValue)
    /\ HyphenFree(WrittenValue)
    /\ d # pre
    /\ last.exc = "none"

----------------------------------------------------------------------------
(* The extractors (climdir.path, imported on line 6) and the round-trip
   scenario (SpecRT): a record constructed from one conformant string of one
   encoding, then read through the generators. *)

\* the conformant strings: every directory field one token, the optional
\* fields bound or not, geographical_info starting with "g"
RtModels == {<< "m" >>, << "m", "-", "h" >>}
RtVariables == {<< "n" >>, << "p", "r" >>}
RtTemporal == {<< >>, << "a", "-", "a" >>, << "a", "-", "a", "-", "c" >>}
RtGeo == {<< >>, << "g" >>}

RtFields ==
    {[x \in {y \in Range(SubSeq(ATTR_KEYS, 1, 13)) :
                /\ y = "temporal_subset" => Truthy(t)
                /\ y = "geographical_info" => Truthy(g)}
        |-> IF x = "model" THEN m
            ELSE IF x = "variable_name" THEN v
            ELSE IF x = "temporal_subset" THEN t
            ELSE IF x = "geographical_info" THEN g
            ELSE Canon[x]]
     : m \in RtModels, v \in RtVariables, t \in RtTemporal, g \in RtGeo}

\* the field order of a file name, as the extractors read it
FnameRequiredSeq ==
    << "variable_name", "mip_table", "model", "experiment", "ensemble_member" >>

FnameOptionalSeq == << "temporal_subset", "geographical_info" >>

StripNc(f) ==
    IF Len(f) > 3 /\ SubSeq(f, Len(f) - 2, Len(f)) = << ".", "n", "c" >>
        THEN SubSeq(f, 1, Len(f) - 3)
        ELSE f

Bind(names, toks) == [x \in Range(names) |-> toks[CHOOSE i \in DOMAIN names : names[i] = x]]

Merge(f, g) == [x \in DOMAIN f \cup DOMAIN g |-> IF x \in DOMAIN g THEN g[x] ELSE f[x]]

PathOk(m) == [exc |-> "none", meta |-> m]
PathError == [exc |-> "PathError", meta |-> EmptyDict]

\* get_cmor_fname_meta: the last path component without its extension, split
\* on "_": the five required fields, then up to two optional ones
get_cmor_fname_meta(s) ==
    LET comps == Split(s, "/")
        toks == Split(StripNc(comps[Len(comps)]), "_")
        req == Bind(FnameRequiredSeq, SubSeq(toks, 1, 5))
        opt == SubSeq(toks, 6, Len(toks))
    IN  IF Len(toks) < 5 \/ Len(toks) > 7 \/ \E i \in DOMAIN toks : ~Truthy(toks[i])
            THEN PathError
        ELSE IF Len(opt) = 0 THEN PathOk(req)
        ELSE IF Len(opt) = 2 THEN PathOk(Merge(req, Bind(FnameOptionalSeq, opt)))
        ELSE IF opt[1][1] = "g"
            THEN PathOk(Merge(req, Bind(<< "geographical_info" >>, opt)))
        ELSE PathOk(Merge(req, Bind(<< "temporal_subset" >>, opt)))

\* the directories of a path, deepest last, bound to the names of list atts,
\* then the fields of the file name
get_dir_meta(s, atts) ==
    LET comps == Split(s, "/")
        k == Len(comps) - 1
        f == get_cmor_fname_meta(s)
    IN  IF k < Len(atts) \/ \E i \in DOMAIN comps : ~Truthy(comps[i]) THEN PathError
        ELSE IF f.exc # "none" THEN f
        ELSE PathOk(Merge(Bind(atts, SubSeq(comps, k - Len(atts) + 1, k)), f.meta))

get_cmor_fp_meta(s) == get_dir_meta(s, StandardSegments)

get_datanode_fp_meta(s) == get_dir_meta(s, ExtendedSegments)

\* __init__, lines 84-91, called with one path argument and no other keyword
ConstructFrom(arg, s) ==
    IF arg = "cmor_fp" THEN get_cmor_fp_meta(s)
    ELSE IF arg = "datanode_fp" THEN get_datanode_fp_meta(s)
    ELSE get_cmor_fname_meta(s)

\* the conformant string of encoding arg that carries fields f
Conformant(arg, f) ==
    IF arg = "cmor_fp" THEN PathOf(f, StandardSegments)
    ELSE IF arg = "datanode_fp" THEN PathOf(f, ExtendedSegments)
    ELSE FnameOf(f)

InitRT ==
    \E arg \in {"cmor_fp", "datanode_fp", "cmor_fname"}, f \in RtFields :
        /\ src = [arg |-> arg, s |-> Conformant(arg, f)]
        /\ ConstructFrom(arg, src.s).exc = "none"
        /\ d = ConstructFrom(arg, src.s).meta
        /\ pre = EmptyDict
        /\ last = InitLast(<< >>)
        /\ n = 0

NextRT == CmorFname \/ CmorFp \/ DatanodeFp

SpecRT == InitRT /\ [][NextRT]_vars

====
